---- MODULE Spec2Model ----
(***************************************************************************)
(* Model of chefir_tree_escape/tree_query.py: class Tree (a rooted tree    *)
(* with a binary-lifting ancestor table and per-subtree maximum depth) and *)
(* its query operations.  One Tree object is the state; every public       *)
(* method is one action, taken whole.                                      *)
(***************************************************************************)
EXTENDS Integers, Sequences, FiniteSets

(* ------------------------------ bounds --------------------------------- *)
\* largest node count n handed to Tree(n)
MaxN == 3
\* largest number of add_edge calls on one tree
MaxEdges == 3
\* largest number of preprocess() calls on one tree
MaxPreprocess == 1
\* largest stamina of a get_farthest_distance query
MaxStamina == 3
\* largest small k of a get_kth_ancestor query (see KValues)
MaxK == 3
MaxQueries == 2
MaxQueryStamina == 1

VARIABLES n, edges, depth, parent, up, max_depth_in_subtree, farthest_node,
          _preprocessed, calls, dirty, last, queries, results, other,
          xor_tree, xor_last

treeVars == <<n, edges, depth, parent, up, max_depth_in_subtree,
              farthest_node, _preprocessed>>
\* calls counts the preprocess() calls; dirty tells that an edge was added
\* after the last preprocess() that completed; last is the most recent call;
\* queries is the list handed to the most recent process_queries() on this
\* tree and results the list it returned (empty when it raised).
\* The variables above are the fields of the instance that is `self` in the
\* calls; other holds the fields of a second instance, named other.id, while
\* the caller works on the first (id "none": there is no second instance).
vars == <<n, edges, depth, parent, up, max_depth_in_subtree, farthest_node,
          _preprocessed, calls, dirty, last, queries, results, other,
          xor_tree, xor_last>>

(* ----------------------------- helpers --------------------------------- *)
\* Stand-in for the interpreter's recursion limit: a valid tree of n nodes
\* nests at most n calls of _dfs, a cycle nests without end.
RecursionLimit == n + 1

RECURSIVE bit_length(_)
bit_length(x) == IF x = 0 THEN 0 ELSE 1 + bit_length(x \div 2)

RECURSIVE Pow2(_)
Pow2(i) == IF i = 0 THEN 1 ELSE 2 * Pow2(i - 1)

\* k & (1 << i), as a truth value
BitSet(k, i) == (k \div Pow2(i)) % 2 = 1

\* self.LOGN, fixed by the constructor from n
LOGN == IF bit_length(n) > 1 THEN bit_length(n) ELSE 1

\* the record of the most recent call on the tree: what was called, with
\* which arguments, how it ended, and the value it returned
Call(op, x, y, status, val, flag) ==
    [op |-> op, x |-> x, y |-> y, status |-> status, val |-> val, flag |-> flag]

\* the arrays are lists of n + 1 entries: a negative index counts from the
\* end, an index outside -(n + 1)..n raises IndexError
idx(i) == IF i < 0 THEN i + n + 1 ELSE i
InRange(i) == -(n + 1) <= i /\ i <= n

(* --------------------------- construction ------------------------------ *)
\* Tree(size): the state the constructor leaves
InitTree(size) ==
    /\ n = size
    /\ edges = [u \in 1..n |-> <<>>]
    /\ depth = [u \in 0..n |-> 0]
    /\ parent = [u \in 0..n |-> 0]
    /\ up = [u \in 0..n |-> [k \in 0..LOGN |-> 0]]
    /\ max_depth_in_subtree = [u \in 0..n |-> 0]
    /\ farthest_node = [u \in 0..n |-> 0]
    /\ _preprocessed = FALSE
    /\ calls = 0
    /\ dirty = FALSE
    /\ last = Call("__init__", size, 0, "return", 0, FALSE)
    /\ queries = <<>>
    /\ results = <<>>
    /\ other = [id |-> "none"]
    /\ xor_tree = [n |-> 0]
    /\ xor_last = [op |-> "none"]

Init == \E size \in 1..MaxN : InitTree(size)

\* number of add_edge calls made so far (each appends to two lists)
RECURSIVE SumLen(_)
SumLen(u) == IF u = 0 THEN 0 ELSE Len(edges[u]) + SumLen(u - 1)
EdgeCount == SumLen(n) \div 2

\* as add_edge, but the adjacency lists are one object shared by all instances
add_edge_shared(u, v) ==
    /\ edges' = IF u = v
                THEN [edges EXCEPT ![u] = Append(Append(@, v), u)]
                ELSE [edges EXCEPT ![u] = Append(@, v), ![v] = Append(@, u)]
    /\ other' = IF other.id = "none" THEN other ELSE [other EXCEPT !.edges = edges']
    /\ last' = Call("add_edge", u, v, "return", 0, FALSE)
    /\ dirty' = _preprocessed
    /\ UNCHANGED <<n, depth, parent, up, max_depth_in_subtree, farthest_node,
                   _preprocessed, calls, queries, results, xor_tree, xor_last>>

add_edge(u, v) ==
    /\ edges' = IF u = v
                THEN [edges EXCEPT ![u] = Append(Append(@, v), u)]
                ELSE [edges EXCEPT ![u] = Append(@, v), ![v] = Append(@, u)]
    /\ last' = Call("add_edge", u, v, "return", 0, FALSE)
    /\ dirty' = _preprocessed
    /\ UNCHANGED <<n, depth, parent, up, max_depth_in_subtree, farthest_node,
                   _preprocessed, calls, queries, results, other, xor_tree, xor_last>>

(* --------------------------- preprocessing ----------------------------- *)
\* _dfs(u, p) on the arrays st.parent / st.depth; lvl is the nesting of the
\* call, st.ok turns false when the recursion limit is hit (RecursionError)
\* and everything after that point is skipped; st.entered lists the nodes
\* in the order the calls entered them.
RECURSIVE _dfs(_, _, _, _), dfs_loop(_, _, _, _, _)
_dfs(st, u, p, lvl) ==
    IF ~st.ok THEN st
    ELSE IF lvl > RecursionLimit THEN [st EXCEPT !.ok = FALSE]
    ELSE dfs_loop([st EXCEPT !.parent[u] = p, !.entered = Append(@, u)], u, p, 1, lvl)

\* as dfs_loop, but a child is put two levels below u
dfs_loop_double_step(st, u, p, i, lvl) ==
    IF ~st.ok \/ i > Len(edges[u]) THEN st
    ELSE LET v == edges[u][i] IN
         IF v /= p
         THEN dfs_loop(_dfs([st EXCEPT !.depth[v] = st.depth[u] + 2], v, u, lvl + 1),
                       u, p, i + 1, lvl)
         ELSE dfs_loop(st, u, p, i + 1, lvl)

\* as dfs_loop, but the node the call came from is not skipped
dfs_loop_no_skip(st, u, p, i, lvl) ==
    IF ~st.ok \/ i > Len(edges[u]) THEN st
    ELSE LET v == edges[u][i] IN
         dfs_loop(_dfs([st EXCEPT !.depth[v] = st.depth[u] + 1], v, u, lvl + 1),
                  u, p, i + 1, lvl)

dfs_loop(st, u, p, i, lvl) ==
    IF ~st.ok \/ i > Len(edges[u]) THEN st
    ELSE LET v == edges[u][i] IN
         IF v /= p
         THEN dfs_loop(_dfs([st EXCEPT !.depth[v] = st.depth[u] + 1], v, u, lvl + 1),
                       u, p, i + 1, lvl)
         ELSE dfs_loop(st, u, p, i + 1, lvl)

\* _build_lifting on a parent array: level 0, then level k from level k-1.
\* Row 0 is never written and stays zero.
RECURSIVE lift_levels(_, _)
\* as lift_levels, but level k is copied from level k-1 of the same node
lift_levels_copying(tab, k) ==
    IF k > LOGN THEN tab
    ELSE lift_levels([v \in 0..n |->
                        IF v = 0 THEN tab[v]
                        ELSE [tab[v] EXCEPT ![k] = tab[v][k - 1]]],
                     k + 1)

lift_levels(tab, k) ==
    IF k > LOGN THEN tab
    ELSE lift_levels([v \in 0..n |->
                        IF v = 0 THEN tab[v]
                        ELSE [tab[v] EXCEPT ![k] = tab[tab[v][k - 1]][k - 1]]],
                     k + 1)

_build_lifting(par) ==
    lift_levels([v \in 0..n |-> IF v = 0 THEN up[v] ELSE [up[v] EXCEPT ![0] = par[v]]], 1)

\* _compute_farthest(u, p) on st.md / st.fn, reading the depth array dep.
RECURSIVE _compute_farthest(_, _, _, _, _), farthest_loop(_, _, _, _, _, _)
\* as _compute_farthest, but a node's own depth is left out of its maximum
_compute_farthest_zero_base(st, dep, u, p, lvl) ==
    IF ~st.ok THEN st
    ELSE IF lvl > RecursionLimit THEN [st EXCEPT !.ok = FALSE]
    ELSE farthest_loop([st EXCEPT !.md[u] = 0, !.fn[u] = u, !.entered = Append(@, u)],
                       dep, u, p, 1, lvl)

_compute_farthest(st, dep, u, p, lvl) ==
    IF ~st.ok THEN st
    ELSE IF lvl > RecursionLimit THEN [st EXCEPT !.ok = FALSE]
    ELSE farthest_loop([st EXCEPT !.md[u] = dep[u], !.fn[u] = u, !.entered = Append(@, u)],
                       dep, u, p, 1, lvl)

\* as farthest_loop, but a deeper child replaces the depth and not the node
farthest_loop_keep_node(st, dep, u, p, i, lvl) ==
    IF ~st.ok \/ i > Len(edges[u]) THEN st
    ELSE LET v == edges[u][i] IN
         IF v /= p
         THEN LET s1 == _compute_farthest(st, dep, v, u, lvl + 1)
                  s2 == IF s1.ok /\ s1.md[v] > s1.md[u]
                        THEN [s1 EXCEPT !.md[u] = s1.md[v]]
                        ELSE s1
              IN farthest_loop(s2, dep, u, p, i + 1, lvl)
         ELSE farthest_loop(st, dep, u, p, i + 1, lvl)

\* as farthest_loop, but a child as deep as the current choice replaces it
farthest_loop_last_wins(st, dep, u, p, i, lvl) ==
    IF ~st.ok \/ i > Len(edges[u]) THEN st
    ELSE LET v == edges[u][i] IN
         IF v /= p
         THEN LET s1 == _compute_farthest(st, dep, v, u, lvl + 1)
                  s2 == IF s1.ok /\ s1.md[v] >= s1.md[u]
                        THEN [s1 EXCEPT !.md[u] = s1.md[v], !.fn[u] = s1.fn[v]]
                        ELSE s1
              IN farthest_loop(s2, dep, u, p, i + 1, lvl)
         ELSE farthest_loop(st, dep, u, p, i + 1, lvl)

farthest_loop(st, dep, u, p, i, lvl) ==
    IF ~st.ok \/ i > Len(edges[u]) THEN st
    ELSE LET v == edges[u][i] IN
         IF v /= p
         THEN LET s1 == _compute_farthest(st, dep, v, u, lvl + 1)
                  s2 == IF s1.ok /\ s1.md[v] > s1.md[u]
                        THEN [s1 EXCEPT !.md[u] = s1.md[v], !.fn[u] = s1.fn[v]]
                        ELSE s1
              IN farthest_loop(s2, dep, u, p, i + 1, lvl)
         ELSE farthest_loop(st, dep, u, p, i + 1, lvl)

\* as preprocess, but the flag is set before the three phases run
preprocess_flag_first ==
    /\ calls < MaxPreprocess
    /\ calls' = calls + 1
    /\ LET d  == _dfs([parent |-> parent, depth |-> depth, ok |-> TRUE,
                    entered |-> <<>>], 1, 0, 1)
           tb == _build_lifting(d.parent)
           f  == _compute_farthest([md |-> max_depth_in_subtree,
                                    fn |-> farthest_node, ok |-> TRUE,
                                    entered |-> <<>>],
                                   d.depth, 1, 0, 1)
       IN /\ parent' = d.parent
          /\ depth' = d.depth
          /\ up' = IF d.ok THEN tb ELSE up
          /\ max_depth_in_subtree' = IF d.ok THEN f.md ELSE max_depth_in_subtree
          /\ farthest_node' = IF d.ok THEN f.fn ELSE farthest_node
          /\ _preprocessed' = TRUE
          /\ dirty' = IF d.ok /\ f.ok THEN FALSE ELSE dirty
          /\ last' = Call("preprocess", 0, 0,
                          IF d.ok /\ f.ok THEN "return" ELSE "RecursionError",
                          0, FALSE)
    /\ UNCHANGED <<n, edges, queries, results, other, xor_tree, xor_last>>

preprocess ==
    /\ calls < MaxPreprocess
    /\ calls' = calls + 1
    /\ LET d  == _dfs([parent |-> parent, depth |-> depth, ok |-> TRUE,
                    entered |-> <<>>], 1, 0, 1)
           tb == _build_lifting(d.parent)
           f  == _compute_farthest([md |-> max_depth_in_subtree,
                                    fn |-> farthest_node, ok |-> TRUE,
                                    entered |-> <<>>],
                                   d.depth, 1, 0, 1)
       IN /\ parent' = d.parent
          /\ depth' = d.depth
          /\ up' = IF d.ok THEN tb ELSE up
          /\ max_depth_in_subtree' = IF d.ok THEN f.md ELSE max_depth_in_subtree
          /\ farthest_node' = IF d.ok THEN f.fn ELSE farthest_node
          /\ _preprocessed' = IF d.ok /\ f.ok THEN TRUE ELSE _preprocessed
          /\ dirty' = IF d.ok /\ f.ok THEN FALSE ELSE dirty
          /\ last' = Call("preprocess", 0, 0,
                          IF d.ok /\ f.ok THEN "return" ELSE "RecursionError",
                          0, FALSE)
    /\ UNCHANGED <<n, edges, queries, results, other, xor_tree, xor_last>>

(* ------------------------------ queries -------------------------------- *)
\* get_kth_ancestor(u, k): bits 0..LOGN of k, least significant first
RECURSIVE kth_loop(_, _, _)
\* as kth_loop, but a missing ancestor is skipped instead of ending the walk
kth_loop_skip_missing(u, k, i) ==
    IF i > LOGN THEN u
    ELSE IF BitSet(k, i)
         THEN IF up[idx(u)][i] = 0 THEN kth_loop(u, k, i + 1)
              ELSE kth_loop(up[idx(u)][i], k, i + 1)
         ELSE kth_loop(u, k, i + 1)

\* as kth_loop, but every set bit climbs to the parent only
kth_loop_one_step(u, k, i) ==
    IF i > LOGN THEN u
    ELSE IF BitSet(k, i)
         THEN IF up[idx(u)][0] = 0 THEN 0 ELSE kth_loop(up[idx(u)][0], k, i + 1)
         ELSE kth_loop(u, k, i + 1)

kth_loop(u, k, i) ==
    IF i > LOGN THEN u
    ELSE IF BitSet(k, i)
         THEN IF up[idx(u)][i] = 0 THEN 0 ELSE kth_loop(up[idx(u)][i], k, i + 1)
         ELSE kth_loop(u, k, i + 1)

\* as get_kth_ancestor, but the scan of the bits starts at bit 1
get_kth_ancestor_skip_bit0(u, k) == kth_loop(u, k, 1)

\* as get_kth_ancestor, but a walk past the root is clamped to the root
get_kth_ancestor_clamped(u, k) ==
    IF kth_loop(u, k, 0) = 0 THEN 1 ELSE kth_loop(u, k, 0)

get_kth_ancestor(u, k) == kth_loop(u, k, 0)

\* as is_ancestor, but with <= in the depth test
is_ancestor_strict(u, v) ==
    IF depth[v] <= depth[u] THEN FALSE
    ELSE get_kth_ancestor(v, depth[v] - depth[u]) = u

is_ancestor(u, v) ==
    IF depth[v] < depth[u] THEN FALSE
    ELSE get_kth_ancestor(v, depth[v] - depth[u]) = u

\* the scan `for used in range(1, stamina + 1)` of get_farthest_distance
RECURSIVE far_scan(_, _, _, _)
\* as far_scan, but only the ancestor exactly `stamina` levels up is tried
far_scan_exact(v, stamina, used, max_dist) ==
    IF used > stamina THEN max_dist
    ELSE LET u_ancestor == get_kth_ancestor(v, stamina) IN
         IF u_ancestor = 0 THEN max_dist
         ELSE LET dist == max_depth_in_subtree[idx(u_ancestor)] - depth[idx(v)] + stamina IN
              IF dist > max_dist THEN dist ELSE max_dist

\* as far_scan, but the climb is not counted in the candidate
far_scan_free_climb(v, stamina, used, max_dist) ==
    IF used > stamina THEN max_dist
    ELSE LET u_ancestor == get_kth_ancestor(v, used) IN
         IF u_ancestor = 0 THEN max_dist
         ELSE LET dist == max_depth_in_subtree[idx(u_ancestor)] - depth[idx(v)] IN
              far_scan(v, stamina, used + 1,
                       IF dist > max_dist THEN dist ELSE max_dist)

\* as far_scan, but the smaller of candidate and running value is kept
far_scan_keep_smaller(v, stamina, used, max_dist) ==
    IF used > stamina THEN max_dist
    ELSE LET u_ancestor == get_kth_ancestor(v, used) IN
         IF u_ancestor = 0 THEN max_dist
         ELSE LET dist == max_depth_in_subtree[idx(u_ancestor)] - depth[idx(v)] + used IN
              far_scan(v, stamina, used + 1,
                       IF dist < max_dist THEN dist ELSE max_dist)

\* as far_scan, but only the parent of v is tried
far_scan_first_only(v, stamina, used, max_dist) ==
    IF used > stamina \/ used > 1 THEN max_dist
    ELSE LET u_ancestor == get_kth_ancestor(v, used) IN
         IF u_ancestor = 0 THEN max_dist
         ELSE LET dist == max_depth_in_subtree[idx(u_ancestor)] - depth[idx(v)] + used IN
              far_scan(v, stamina, used + 1,
                       IF dist > max_dist THEN dist ELSE max_dist)

far_scan(v, stamina, used, max_dist) ==
    IF used > stamina THEN max_dist
    ELSE LET u_ancestor == get_kth_ancestor(v, used) IN
         IF u_ancestor = 0 THEN max_dist
         ELSE LET dist == max_depth_in_subtree[idx(u_ancestor)] - depth[idx(v)] + used IN
              far_scan(v, stamina, used + 1,
                       IF dist > max_dist THEN dist ELSE max_dist)

\* the number of get_kth_ancestor calls the scan makes from `used` on: one
\* per round, the round that meets the sentinel included
RECURSIVE far_scan_lookups(_, _, _)
far_scan_lookups(v, stamina, used) ==
    IF used > stamina THEN 0
    ELSE IF get_kth_ancestor(v, used) = 0 THEN 1
    ELSE 1 + far_scan_lookups(v, stamina, used + 1)

\* get_farthest_distance(v, stamina): how the call ends and what it returns.
\* The first loop of the method (lines 132-141) only moves the locals u and
\* stamina_left, which line 144 resets before they are read: it has no effect.
\* as get_farthest_distance, but without the _preprocessed guard
get_farthest_distance_unguarded(v, stamina) ==
    IF ~InRange(v)
    THEN [status |-> "IndexError", val |-> 0]
    ELSE [status |-> "return",
          val |-> far_scan(v, stamina, 1,
                           max_depth_in_subtree[idx(v)] - depth[idx(v)])]

get_farthest_distance(v, stamina) ==
    IF ~_preprocessed
    THEN [status |-> "RuntimeError", val |-> 0]
    ELSE IF ~InRange(v)
    THEN [status |-> "IndexError", val |-> 0]
    ELSE [status |-> "return",
          val |-> far_scan(v, stamina, 1,
                           max_depth_in_subtree[idx(v)] - depth[idx(v)])]

QueryFarthest(v, stamina) ==
    /\ LET r == get_farthest_distance(v, stamina) IN
         last' = Call("get_farthest_distance", v, stamina, r.status, r.val, FALSE)
    /\ UNCHANGED <<treeVars, calls, dirty, queries, results, other, xor_tree, xor_last>>

\* as QueryKth, but the answer is cached in the first column of the table
QueryKth_caching(u, k) ==
    /\ last' = Call("get_kth_ancestor", u, k, "return", get_kth_ancestor(u, k), FALSE)
    /\ up' = [up EXCEPT ![u][0] = get_kth_ancestor(u, k)]
    /\ UNCHANGED <<n, edges, depth, parent, max_depth_in_subtree, farthest_node,
                   _preprocessed, calls, dirty, queries, results, other, xor_tree, xor_last>>

QueryKth(u, k) ==
    /\ last' = Call("get_kth_ancestor", u, k, "return", get_kth_ancestor(u, k), FALSE)
    /\ UNCHANGED <<treeVars, calls, dirty, queries, results, other, xor_tree, xor_last>>

QueryIsAncestor(u, v) ==
    /\ last' = Call("is_ancestor", u, v, "return", 0, is_ancestor(u, v))
    /\ UNCHANGED <<treeVars, calls, dirty, queries, results, other, xor_tree, xor_last>>

(* --------------------------- QueryProcessor ---------------------------- *)
process_query(v, stamina) == get_farthest_distance(v, stamina)

\* the loop of process_queries from the i-th query on, acc being the list
\* built so far; a query that raises ends the call and nothing is returned
RECURSIVE queries_loop(_, _, _)
\* as queries_loop, but a query that raises ends the loop and the list
\* built so far is returned
queries_loop_swallowing(qs, i, acc) ==
    IF i > Len(qs) THEN [status |-> "return", results |-> acc]
    ELSE LET r == process_query(qs[i][1], qs[i][2]) IN
         IF r.status /= "return" THEN [status |-> "return", results |-> acc]
         ELSE queries_loop(qs, i + 1, Append(acc, r.val))

queries_loop(qs, i, acc) ==
    IF i > Len(qs) THEN [status |-> "return", results |-> acc]
    ELSE LET r == process_query(qs[i][1], qs[i][2]) IN
         IF r.status /= "return" THEN [status |-> r.status, results |-> <<>>]
         ELSE queries_loop(qs, i + 1, Append(acc, r.val))

process_queries(qs) ==
    /\ LET r == queries_loop(qs, 1, <<>>) IN
         /\ results' = r.results
         /\ last' = Call("process_queries", Len(qs), 0, r.status, 0, FALSE)
    /\ queries' = qs
    /\ UNCHANGED <<treeVars, calls, dirty, other, xor_tree, xor_last>>

(* --------------------------- specifications --------------------------- *)
\* the k handed to get_kth_ancestor: the small ones, and two whose only set
\* bits lie above bit LOGN, the last bit the lifting table has
KValues == (0..MaxK) \cup {Pow2(LOGN + 1), Pow2(LOGN + 1) + 1}

Build == EdgeCount < MaxEdges /\ \E u \in 1..n, v \in 1..n : add_edge(u, v)

AskFarthest == \E v \in 1..n, stamina \in 0..MaxStamina : QueryFarthest(v, stamina)

AskKth == \E u \in 1..n, k \in KValues : QueryKth(u, k)

AskIsAncestor == \E u \in 1..n, v \in 1..n : QueryIsAncestor(u, v)

\* any caller of the class: every method, in any order
Next == Build \/ preprocess \/ AskFarthest \/ AskKth \/ AskIsAncestor

Spec == Init /\ [][Next]_vars

\* Malformed input: a tree of 3 nodes given up to three edges out of the
\* triangle's, in any order.  All three make a cycle through the root, on
\* which _dfs recurses until the interpreter stops it.
TriangleEdges == {<<1, 2>>, <<2, 3>>, <<3, 1>>}

BuildTriangle == EdgeCount < Cardinality(TriangleEdges) /\ \E e \in TriangleEdges : add_edge(e[1], e[2])

NextCycle == BuildTriangle \/ preprocess \/ AskFarthest

SpecCycle == InitTree(3) /\ [][NextCycle]_vars

Nodes == 1..n

Adj(u) == {edges[u][i] : i \in 1..Len(edges[u])}

\* the nodes within d edges of the set S
RECURSIVE Within(_, _)
Within(S, d) ==
    IF d = 0 THEN S
    ELSE Within(S \cup UNION {Adj(u) : u \in S}, d - 1)

\* A caller whose edges are those of a tree: each add_edge joins two nodes
\* that no path joins yet, so the edges given so far never hold a self-loop,
\* a repeated edge or a cycle, and n-1 of them make a tree.
BuildForest ==
    \E u \in 1..n, v \in 1..n : v \notin Within({u}, n) /\ add_edge(u, v)

NextTreeFar == BuildForest \/ preprocess \/ AskFarthest

SpecTreeFar == Init /\ [][NextTreeFar]_vars

NextTreeAnc == BuildForest \/ preprocess \/ AskKth \/ AskIsAncestor

SpecTreeAnc == Init /\ [][NextTreeAnc]_vars

\* a caller, on the edges of a tree, that adds its edges before it calls
\* preprocess(), as main does, and asks all three queries
BuildFirst == ~_preprocessed /\ BuildForest

NextTreeAll == BuildFirst \/ preprocess \/ AskFarthest \/ AskKth \/ AskIsAncestor

SpecTreeAll == Init /\ [][NextTreeAll]_vars

\* Scenario 1: a tree of 4 nodes given the star's edges, in any order
StarEdges == {<<1, 2>>, <<1, 3>>, <<1, 4>>}

BuildStar == EdgeCount < Cardinality(StarEdges) /\ \E e \in StarEdges : add_edge(e[1], e[2])

NextStar == BuildStar \/ preprocess \/ AskFarthest

SpecStar == InitTree(4) /\ [][NextStar]_vars

\* Scenario 2: a tree of 5 nodes given the path's edges, each once, in any order
PathEdges == {<<1, 2>>, <<2, 3>>, <<3, 4>>, <<4, 5>>}

BuildPath == \E e \in PathEdges : e[2] \notin Adj(e[1]) /\ add_edge(e[1], e[2])

NextPath == BuildPath \/ preprocess \/ AskFarthest

SpecPath == InitTree(5) /\ [][NextPath]_vars

\* Two instances of two nodes each.  The caller constructs the second while
\* the first exists and turns from one to the other between any two calls;
\* the instance it is not working on keeps its fields in other.
\* Tree(size) under the name id: the fields the constructor creates, each a
\* new object
NewTree(id, size) ==
    LET logn == IF bit_length(size) > 1 THEN bit_length(size) ELSE 1 IN
    [id |-> id, n |-> size,
     edges |-> [u \in 1..size |-> <<>>],
     depth |-> [u \in 0..size |-> 0],
     parent |-> [u \in 0..size |-> 0],
     up |-> [u \in 0..size |-> [k \in 0..logn |-> 0]],
     max_depth_in_subtree |-> [u \in 0..size |-> 0],
     farthest_node |-> [u \in 0..size |-> 0],
     _preprocessed |-> FALSE, calls |-> 0, dirty |-> FALSE]

second_tree ==
    /\ other.id = "none"
    /\ other' = NewTree("B", 2)
    /\ last' = Call("__init__", 2, 0, "return", 0, FALSE)
    /\ UNCHANGED <<treeVars, calls, dirty, queries, results, xor_tree, xor_last>>

\* the caller turns to the other instance: no method runs
switch ==
    /\ other.id /= "none"
    /\ n' = other.n
    /\ edges' = other.edges
    /\ depth' = other.depth
    /\ parent' = other.parent
    /\ up' = other.up
    /\ max_depth_in_subtree' = other.max_depth_in_subtree
    /\ farthest_node' = other.farthest_node
    /\ _preprocessed' = other._preprocessed
    /\ calls' = other.calls
    /\ dirty' = other.dirty
    /\ other' = [id |-> IF other.id = "B" THEN "A" ELSE "B", n |-> n,
                 edges |-> edges, depth |-> depth, parent |-> parent, up |-> up,
                 max_depth_in_subtree |-> max_depth_in_subtree,
                 farthest_node |-> farthest_node,
                 _preprocessed |-> _preprocessed, calls |-> calls, dirty |-> dirty]
    /\ UNCHANGED <<last, queries, results, xor_tree, xor_last>>

NextTwo ==
    \/ second_tree \/ switch \/ BuildForest \/ preprocess
    \/ AskFarthest \/ AskKth \/ AskIsAncestor

SpecTwo == InitTree(2) /\ [][NextTwo]_vars

\* a caller whose node ids are not checked: up to two below the first and
\* one above the last index of the arrays
AskFarthestAny ==
    \E v \in (-(n + 2))..(n + 1), stamina \in 0..MaxQueryStamina : QueryFarthest(v, stamina)

NextRange == BuildForest \/ preprocess \/ AskFarthestAny

SpecRange == Init /\ [][NextRange]_vars

\* main(): for every test case Tree(n), the add_edge loop over the n - 1
\* edges read, preprocess(), then process_queries() on the queries read.
\* The edges read are those of a tree; the queries read are at most
\* MaxQueries pairs whose node is any of 1..n + 1.  An exception ends main.
RECURSIVE SeqsUpTo(_, _)
SeqsUpTo(S, len) ==
    IF len = 0 THEN {<<>>}
    ELSE SeqsUpTo(S, len - 1)
         \cup {Append(q, e) : q \in {r \in SeqsUpTo(S, len - 1) : Len(r) = len - 1}, e \in S}

QueryInputs == SeqsUpTo((1..(n + 1)) \X (0..MaxQueryStamina), MaxQueries)

\* Tree(size) for the next test case: the constructor's state again
main_new_tree ==
    /\ last.op = "process_queries" /\ last.status = "return"
    /\ \E size \in 1..MaxN :
         LET logn == IF bit_length(size) > 1 THEN bit_length(size) ELSE 1 IN
         /\ n' = size
         /\ edges' = [u \in 1..size |-> <<>>]
         /\ depth' = [u \in 0..size |-> 0]
         /\ parent' = [u \in 0..size |-> 0]
         /\ up' = [u \in 0..size |-> [k \in 0..logn |-> 0]]
         /\ max_depth_in_subtree' = [u \in 0..size |-> 0]
         /\ farthest_node' = [u \in 0..size |-> 0]
         /\ _preprocessed' = FALSE
         /\ calls' = 0
         /\ dirty' = FALSE
         /\ last' = Call("__init__", size, 0, "return", 0, FALSE)
         /\ queries' = <<>>
         /\ results' = <<>>
    /\ UNCHANGED <<other, xor_tree, xor_last>>

main_add_edge ==
    /\ last.op \in {"__init__", "add_edge"}
    /\ EdgeCount < n - 1
    /\ BuildForest

main_preprocess ==
    /\ last.op \in {"__init__", "add_edge"}
    /\ EdgeCount = n - 1
    /\ preprocess

\* as main_process_queries, but placed before the call of preprocess()
main_process_queries_early ==
    /\ last.op \in {"__init__", "add_edge"}
    /\ EdgeCount = n - 1
    /\ \E qs \in QueryInputs : process_queries(qs)

main_process_queries ==
    /\ last.op = "preprocess" /\ last.status = "return"
    /\ \E qs \in QueryInputs : process_queries(qs)

NextMain == main_new_tree \/ main_add_edge \/ main_preprocess \/ main_process_queries

SpecMain == Init /\ [][NextMain]_vars

(* ------------- tree_path_xor_sum: the Tree with lca / get_path --------- *)
\* xor_tree is the Tree of tree_path_xor_sum (n = 0: none yet) and xor_last
\* the most recent call on it; chefirVars are the fields of the
\* chefir_tree_escape instances, which this program never touches
chefirVars == <<treeVars, calls, dirty, last, queries, results, other>>

XCall(op, u, v, status, val, path) ==
    [op |-> op, u |-> u, v |-> v, status |-> status, val |-> val, path |-> path]

\* MainApp.run reads n and starts an empty adjacency list; the fields that
\* Tree(n, adj, a) will create are given their initial values here, made
\* tells whether the constructor has run
xor_start ==
    /\ xor_tree.n = 0
    /\ \E size \in 1..MaxN :
         xor_tree' = [n |-> size,
                      adj |-> [u \in 1..size |-> <<>>],
                      max_log |-> bit_length(size),
                      parent |-> [k \in 0..(bit_length(size) - 1) |-> [v \in 0..size |-> -1]],
                      depth |-> [v \in 0..size |-> 0],
                      _preprocessed |-> FALSE,
                      made |-> FALSE, calls |-> 0]
    /\ xor_last' = XCall("start", 0, 0, "return", 0, <<>>)
    /\ UNCHANGED chefirVars

XNodes == 1..xor_tree.n

XAdj(u) == {xor_tree.adj[u][i] : i \in 1..Len(xor_tree.adj[u])}

\* the nodes within d edges of the set S in adj
RECURSIVE XWithin(_, _)
XWithin(S, d) ==
    IF d = 0 THEN S
    ELSE XWithin(S \cup UNION {XAdj(u) : u \in S}, d - 1)

\* MainApp.run reads an edge; the edges read are those of a tree
xor_read_edge ==
    /\ xor_tree.n > 0 /\ ~xor_tree.made
    /\ \E u \in XNodes, v \in XNodes :
         /\ v \notin XWithin({u}, xor_tree.n)
         /\ xor_tree' = [xor_tree EXCEPT !.adj[u] = Append(@, v), !.adj[v] = Append(@, u)]
         /\ xor_last' = XCall("read_edge", u, v, "return", 0, <<>>)
    /\ UNCHANGED chefirVars

\* Tree(n, adj, a)
xor_Tree ==
    /\ xor_tree.n > 0 /\ ~xor_tree.made
    /\ xor_tree' = [xor_tree EXCEPT !.made = TRUE]
    /\ xor_last' = XCall("__init__", xor_tree.n, 0, "return", 0, <<>>)
    /\ UNCHANGED chefirVars

\* dfs(u, p) of preprocess on st.par (row 0 of parent) and st.depth.  The
\* adjacency lists hold a forest, on which the recursion nests at most n deep.
RECURSIVE dfs(_, _, _), dfs_children(_, _, _, _)
dfs(st, u, p) == dfs_children([st EXCEPT !.par[u] = p], u, p, 1)

dfs_children(st, u, p, i) ==
    IF i > Len(xor_tree.adj[u]) THEN st
    ELSE LET v == xor_tree.adj[u][i] IN
         IF v /= p
         THEN dfs_children(dfs([st EXCEPT !.depth[v] = st.depth[u] + 1], v, u), u, p, i + 1)
         ELSE dfs_children(st, u, p, i + 1)

\* the loop over k of preprocess: row k from row k-1, an entry being
\* written only where row k-1 has an ancestor
RECURSIVE xor_lift(_, _)
xor_lift(tab, k) ==
    IF k > xor_tree.max_log - 1 THEN tab
    ELSE xor_lift([tab EXCEPT ![k] =
                      [v \in 0..xor_tree.n |->
                          IF v >= 1 /\ tab[k - 1][v] /= -1
                          THEN tab[k - 1][tab[k - 1][v]]
                          ELSE tab[k][v]]],
                  k + 1)

xor_preprocess ==
    /\ xor_tree.n > 0 /\ xor_tree.made
    /\ xor_tree.calls < MaxPreprocess
    /\ LET d == dfs([par |-> xor_tree.parent[0], depth |-> xor_tree.depth], 1, -1)
       IN xor_tree' = [xor_tree EXCEPT
                          !.parent = xor_lift([xor_tree.parent EXCEPT ![0] = d.par], 1),
                          !.depth = d.depth,
                          !._preprocessed = TRUE,
                          !.calls = @ + 1]
    /\ xor_last' = XCall("preprocess", 1, 0, "return", 0, <<>>)
    /\ UNCHANGED chefirVars

\* the first loop of lca: u is brought up to the depth of v, k going down
RECURSIVE lca_raise(_, _, _)
\* as lca_raise, but a jump is taken only if it ends strictly below v
lca_raise_strict(u, v, k) ==
    IF k < 0 THEN u
    ELSE LET a == xor_tree.parent[k][u] IN
         IF a /= -1 /\ xor_tree.depth[a] > xor_tree.depth[v]
         THEN lca_raise(a, v, k - 1)
         ELSE lca_raise(u, v, k - 1)

lca_raise(u, v, k) ==
    IF k < 0 THEN u
    ELSE LET a == xor_tree.parent[k][u] IN
         IF a /= -1 /\ xor_tree.depth[a] >= xor_tree.depth[v]
         THEN lca_raise(a, v, k - 1)
         ELSE lca_raise(u, v, k - 1)

\* the second loop of lca: both climb while their ancestors differ
RECURSIVE lca_climb(_, _, _)
lca_climb(u, v, k) ==
    IF k < 0 THEN u
    ELSE LET a == xor_tree.parent[k][u]
             b == xor_tree.parent[k][v]
         IN IF a /= -1 /\ a /= b
            THEN lca_climb(a, b, k - 1)
            ELSE lca_climb(u, v, k - 1)

lca(u, v) ==
    IF ~xor_tree._preprocessed
    THEN [status |-> "RuntimeError", val |-> 0]
    ELSE LET lo == IF xor_tree.depth[u] < xor_tree.depth[v] THEN v ELSE u
             hi == IF xor_tree.depth[u] < xor_tree.depth[v] THEN u ELSE v
             up1 == lca_raise(lo, hi, xor_tree.max_log - 1)
         IN [status |-> "return",
             val |-> IF up1 = hi THEN up1
                     ELSE xor_tree.parent[0][lca_climb(up1, hi, xor_tree.max_log - 1)]]

\* the nodes from curr up to, and without, the node top
RECURSIVE path_below(_, _)
path_below(curr, top) ==
    IF curr = top THEN <<>>
    ELSE <<curr>> \o path_below(xor_tree.parent[0][curr], top)

RECURSIVE Reverse(_)
Reverse(sq) == IF sq = <<>> THEN <<>> ELSE Append(Reverse(Tail(sq)), Head(sq))

get_path(u, v) ==
    LET l == lca(u, v) IN
    IF l.status /= "return"
    THEN [status |-> l.status, path |-> <<>>]
    ELSE [status |-> "return",
          path |-> path_below(u, l.val) \o <<l.val>> \o Reverse(path_below(v, l.val))]

xor_lca ==
    /\ xor_tree.n > 0 /\ xor_tree.made
    /\ \E u \in XNodes, v \in XNodes :
         LET r == lca(u, v) IN
         xor_last' = XCall("lca", u, v, r.status, r.val, <<>>)
    /\ UNCHANGED <<chefirVars, xor_tree>>

xor_get_path ==
    /\ xor_tree.n > 0 /\ xor_tree.made
    /\ \E u \in XNodes, v \in XNodes :
         LET r == get_path(u, v) IN
         xor_last' = XCall("get_path", u, v, r.status, 0, r.path)
    /\ UNCHANGED <<chefirVars, xor_tree>>

NextXor ==
    \/ xor_start \/ xor_read_edge \/ xor_Tree \/ xor_preprocess
    \/ xor_lca \/ xor_get_path

SpecXor == InitTree(1) /\ [][NextXor]_vars

(* ------------------- reference notions, from the edges ------------------ *)
\* n nodes, n-1 edges, connected: a tree (rooted at 1 by convention)
ValidTree == EdgeCount = n - 1 /\ Within({1}, n) = Nodes

\* number of edges on the path between u and w in a valid tree
Dist(u, w) == CHOOSE d \in 0..n : w \in Within({u}, d) /\ \A e \in 0..(d - 1) : w \notin Within({u}, e)

\* a lies on the path from the root to v
OnRootPath(a, v) == Dist(1, a) + Dist(a, v) = Dist(1, v)

\* preprocess() completed on a valid tree, and the tree is as it was then
Ready == _preprocessed /\ ~dirty /\ ValidTree

SetMax(S) == CHOOSE m \in S : \A x \in S : x <= m

\* the nodes one reaches from v by climbing at most s parent edges and then
\* only descending, and the largest distance from v to one of them
Reachable(v, s) ==
    {w \in Nodes : \E a \in Nodes : OnRootPath(a, v) /\ Dist(a, v) <= s /\ OnRootPath(a, w)}

BruteFarthest(v, s) == SetMax({Dist(v, w) : w \in Reachable(v, s)})

Returned(op) == last.op = op /\ last.status = "return"

(* -------------------------------- claims -------------------------------- *)
\* C1: on a tree whose preprocess() has not completed (never called, or
\* aborted part-way), every get_farthest_distance call raises RuntimeError,
\* returns no value, and leaves every field of the tree as it was.
C1_UnpreprocessedQueryRaises ==
    [][(~_preprocessed /\ last'.op = "get_farthest_distance")
        => (last'.status = "RuntimeError" /\ treeVars' = treeVars)]_vars

\* C1 witness: preprocess() was called and aborted part-way (parent written,
\* flag still false), and a get_farthest_distance call then raised.
C1_Witness ==
    /\ last.op = "get_farthest_distance" /\ last.status = "RuntimeError"
    /\ calls > 0 /\ ~_preprocessed
    /\ \E u \in Nodes : parent[u] /= 0

\* C2 (as stated): every query operation issued before preprocess() has
\* completed fails with an error, get_kth_ancestor and is_ancestor included.
C2_EveryQueryGuarded ==
    (~_preprocessed /\ last.op \in {"get_farthest_distance", "get_kth_ancestor", "is_ancestor"})
        => last.status = "RuntimeError"

\* C3 (as stated): on a valid preprocessed tree get_farthest_distance(v, s)
\* is the largest number of edges between v and a node reached by climbing
\* at most s parent edges and then only descending.
C3_FarthestIsBruteForce ==
    (Ready /\ Returned("get_farthest_distance"))
        => last.val = BruteFarthest(last.x, last.y)

\* C4: on a valid preprocessed tree get_farthest_distance(v, 0) returns
\* max_depth_in_subtree[v] - depth[v], and that value is >= 0.
C4_ZeroStaminaBaseline ==
    (Ready /\ last.op = "get_farthest_distance" /\ last.y = 0)
        => /\ last.status = "return"
           /\ last.val = max_depth_in_subtree[last.x] - depth[last.x]
           /\ last.val >= 0

\* C4 witness: a zero-stamina query on a node with a proper subtree.
C4_Witness ==
    /\ Ready /\ Returned("get_farthest_distance") /\ last.y = 0
    /\ last.val > 0 /\ last.x /= 1

\* C5: on a valid preprocessed tree, of two successive queries on the same
\* node the one with the larger stamina never returns less.
C5_MonotoneInStamina ==
    [][(/\ Ready /\ Returned("get_farthest_distance")
        /\ last'.op = "get_farthest_distance" /\ last'.status = "return"
        /\ last'.x = last.x /\ last.y <= last'.y)
        => last.val <= last'.val]_vars

\* C5 witness: a query whose stamina made the answer larger than at stamina 0.
C5_Witness ==
    /\ Ready /\ Returned("get_farthest_distance") /\ last.y > 0
    /\ last.val > get_farthest_distance(last.x, 0).val

\* C6 (as stated): whenever get_kth_ancestor(v, k) is not 0, the node it
\* returns is k levels above v, for every k >= 0 however large.
C6_KthAncestorDepth ==
    (Ready /\ Returned("get_kth_ancestor") /\ last.val /= 0)
        => depth[last.val] = depth[last.x] - last.y

\* C7 (as stated): get_kth_ancestor(v, k) is 0 for every k > depth[v],
\* however large.
C7_PastRootIsSentinel ==
    (Ready /\ Returned("get_kth_ancestor") /\ last.y > depth[last.x])
        => last.val = 0

\* C8: on a valid preprocessed tree is_ancestor(u, v) is true exactly when u
\* lies on the path from the root to v, and is false when v is above u.
C8_IsAncestorIffOnRootPath ==
    (Ready /\ Returned("is_ancestor"))
        => /\ last.flag <=> OnRootPath(last.x, last.y)
           /\ depth[last.y] < depth[last.x] => ~last.flag

\* C8 witness: two nodes of equal depth, neither the ancestor of the other.
C8_Witness ==
    /\ Ready /\ Returned("is_ancestor") /\ ~last.flag
    /\ last.x /= last.y /\ depth[last.x] = depth[last.y]

\* C9: on a valid preprocessed tree the root is an ancestor of every node
\* and every node is its own ancestor.
C9_RootAndSelfAreAncestors ==
    (Ready /\ Returned("is_ancestor") /\ (last.x = 1 \/ last.x = last.y))
        => last.flag

\* C9 witness: the root asked about a node two levels below it.
C9_Witness ==
    /\ Ready /\ Returned("is_ancestor") /\ last.flag
    /\ last.x = 1 /\ depth[last.y] = 2

\* C10 (as stated): on the star with centre 1 and leaves 2, 3, 4, after
\* preprocess, get_farthest_distance(1, 0) is 1 and get_farthest_distance(2, 1) is 2.
C10_StarScenario ==
    (Ready /\ n = 4 /\ Adj(1) = {2, 3, 4} /\ Returned("get_farthest_distance"))
        => /\ (last.x = 1 /\ last.y = 0) => last.val = 1
           /\ (last.x = 2 /\ last.y = 1) => last.val = 2

C12_SingleNode ==
    (n = 1 /\ calls > 0)
        => /\ _preprocessed
           /\ last.op = "preprocess" => last.status = "return"
           /\ get_kth_ancestor(1, 1) = 0
           /\ last.op = "get_farthest_distance" => (last.status = "return" /\ last.val = 0)

\* C12 witness: the single node was asked with the largest stamina.
C12_Witness ==
    /\ n = 1 /\ Returned("get_farthest_distance")
    /\ last.y = MaxStamina /\ last.val = 0

\* the candidates of get_farthest_distance(v, s): one per used = 1..s below
\* the first used whose ancestor is the sentinel
Candidates(v, s) ==
    {max_depth_in_subtree[get_kth_ancestor(v, used)] - depth[v] + used :
        used \in {j \in 1..s : \A i \in 1..j : get_kth_ancestor(v, i) /= 0}}

C14_StaminaBeyondDepth ==
    (Ready /\ Returned("get_farthest_distance") /\ last.y >= depth[last.x])
        => last.val = get_farthest_distance(last.x, depth[last.x]).val

\* C14 witness: a query on a node below the root with more stamina than its depth.
C14_Witness ==
    /\ Ready /\ Returned("get_farthest_distance")
    /\ depth[last.x] > 0 /\ last.y > depth[last.x]

\* C15: on a preprocessed tree the three query operations change no field
\* of the tree, and the query just answered, asked again in the state it
\* left, gives the same result.
C15_QueriesReadOnly ==
    [][(_preprocessed /\ last'.op \in {"get_farthest_distance", "get_kth_ancestor", "is_ancestor"})
        => /\ treeVars' = treeVars
           /\ \A x \in {last'.x}, y \in {last'.y} :
                /\ last'.op = "get_farthest_distance"
                     => last'.val = (get_farthest_distance(x, y).val)'
                /\ last'.op = "get_kth_ancestor"
                     => last'.val = (get_kth_ancestor(x, y))'
                /\ last'.op = "is_ancestor"
                     => last'.flag = (is_ancestor(x, y))']_vars

\* C15 witness: a query on a preprocessed tree that found a proper ancestor.
C15_Witness ==
    /\ _preprocessed /\ Returned("get_kth_ancestor")
    /\ last.y > 0 /\ last.val /= 0

\* C16: process_queries returns one integer per query, the i-th being
\* get_farthest_distance of the i-th query; if a query raises the call
\* raises and no list, partial or not, is returned.
C16_OneResultPerQueryInOrder ==
    last.op = "process_queries"
        => LET raising == {i \in 1..Len(queries) :
                            get_farthest_distance(queries[i][1], queries[i][2]).status /= "return"}
           IN /\ last.status = "return" <=> raising = {}
              /\ last.status = "return"
                    => /\ Len(results) = Len(queries)
                       /\ \A i \in 1..Len(queries) :
                            results[i] = get_farthest_distance(queries[i][1], queries[i][2]).val
              /\ last.status /= "return" => results = <<>>

\* C16 witness: two queries with different answers, returned in their order.
C16_Witness ==
    /\ last.op = "process_queries" /\ last.status = "return"
    /\ Len(queries) = 2 /\ Len(results) = 2 /\ results[1] < results[2]

\* C17: input that is not a tree (an edge count other than n - 1, a
\* disconnected graph, a cycle, a self-loop) makes preprocess() end with an
\* error, and no state has _preprocessed true over arrays built on such
\* input: a node other than the root left at depth 0, or its own parent.
C17_MalformedInputRejected ==
    /\ (last.op = "preprocess" /\ ~ValidTree) => last.status /= "return"
    /\ (_preprocessed /\ ~dirty)
          => \A u \in Nodes : parent[u] /= u /\ (u /= 1 => depth[u] > 0)

\* C18: on a preprocessed tree get_farthest_distance returns no value for
\* a node id outside 1..n: the call ends with an error.
C18_OutOfRangeRejected ==
    (_preprocessed /\ last.op = "get_farthest_distance" /\ last.x \notin 1..n)
        => last.status /= "return"

\* C19: once preprocess() has completed no edge is added to the tree, so
\* whenever _preprocessed is true the arrays were computed from the edges
\* the tree has now.
C19_NoEdgeAfterPreprocess == _preprocessed => ~dirty

\* C20: in main, process_queries is called on a tree only after all its
\* n - 1 edges were added and preprocess() has completed on them: no query
\* meets a false _preprocessed.
C20_QueriesAfterPreprocess ==
    last.op = "process_queries"
        => /\ _preprocessed /\ ~dirty
           /\ calls = 1
           /\ EdgeCount = n - 1
           /\ last.status /= "RuntimeError"

\* C20 witness: main handed a full list of queries to a tree of several nodes.
C20_Witness ==
    /\ last.op = "process_queries" /\ last.status = "return"
    /\ n > 1 /\ _preprocessed /\ Len(queries) = MaxQueries

\* C21: two instances share no state: a call on one of them, whichever
\* method and in whatever order, leaves every field of the other as it was,
\* and an instance the caller returns to has the fields it had when the
\* caller left it, so its queries answer as if it were alone.
C21_InstancesShareNoState ==
    [][other.id /= "none"
        => /\ other'.id = other.id => other' = other
           /\ other'.id /= other.id
                => /\ treeVars' = <<other.n, other.edges, other.depth, other.parent,
                                    other.up, other.max_depth_in_subtree,
                                    other.farthest_node, other._preprocessed>>
                   /\ \A v \in 1..other.n :
                        get_farthest_distance(v, MaxStamina)'.status
                            = (IF other._preprocessed THEN "return" ELSE "RuntimeError")]_vars

\* C21 witness: while the first instance is preprocessed and set aside, the
\* second has been given an edge and is not preprocessed.
C21_Witness ==
    /\ other.id = "A" /\ other._preprocessed /\ other.edges[1] = <<>>
    /\ ~_preprocessed /\ last.op = "add_edge" /\ edges[1] /= <<>>

\* C22: after preprocess() on a valid tree, for every node v, up[v][0] is
\* parent[v] and up[v][k] is up[up[v][k-1]][k-1] for k in 1..LOGN; row 0 of
\* the table is all zero, and up[v][k] is 0 whenever 2^k exceeds depth[v].
C22_LiftingTable ==
    Ready
        => /\ \A k \in 0..LOGN : up[0][k] = 0
           /\ \A v \in Nodes :
                /\ up[v][0] = parent[v]
                /\ \A k \in 1..LOGN : up[v][k] = up[up[v][k - 1]][k - 1]
                /\ \A k \in 0..LOGN : Pow2(k) > depth[v] => up[v][k] = 0

\* C22 witness: preprocess() has just built a table in which some node has
\* an ancestor two levels up.
C22_Witness ==
    /\ Ready /\ Returned("preprocess")
    /\ \E v \in Nodes : up[v][1] /= 0

\* C23: after preprocess() on a valid tree the root has depth 0 and parent
\* 0; every other node's parent is one of its neighbours, one level above
\* it, and depth[v] is the number of edges from the root to v.
C23_DepthAndParent ==
    Ready
        => /\ depth[1] = 0 /\ parent[1] = 0
           /\ \A v \in Nodes \ {1} :
                parent[v] \in Adj(v) /\ depth[v] = depth[parent[v]] + 1
           /\ \A v \in Nodes : depth[v] = Dist(1, v)

\* C23 witness: preprocess() has just returned on a tree with a node two
\* levels below the root.
C23_Witness ==
    /\ Ready /\ Returned("preprocess")
    /\ \E v \in Nodes : depth[v] = 2 /\ parent[parent[v]] = 1

\* the subtree rooted at v, from the edges: the nodes whose path from the
\* root passes v
Subtree(v) == {w \in Nodes : OnRootPath(v, w)}

\* C24: after preprocess() on a valid tree max_depth_in_subtree[v] is the
\* largest depth in the subtree rooted at v, and farthest_node[v] is a node
\* of that subtree at that depth.
C24_SubtreeMaximum ==
    Ready
        => \A v \in Nodes :
             /\ max_depth_in_subtree[v] = SetMax({depth[w] : w \in Subtree(v)})
             /\ farthest_node[v] \in Subtree(v)
             /\ depth[farthest_node[v]] = max_depth_in_subtree[v]

\* C24 witness: preprocess() has just returned and the farthest node of the
\* root lies two levels below it.
C24_Witness ==
    /\ Ready /\ Returned("preprocess")
    /\ farthest_node[1] /= 1 /\ max_depth_in_subtree[1] = 2

\* the positions in edges[u] of the children of u whose subtree is as deep
\* as the subtree of u
DeepestChildren(u) ==
    {i \in 1..Len(edges[u]) :
        /\ edges[u][i] /= parent[u]
        /\ max_depth_in_subtree[edges[u][i]] = max_depth_in_subtree[u]}

\* C25: when several children of u have subtrees of the same, largest
\* depth, farthest_node[u] is the farthest_node of the one that comes first
\* in edges[u]; without children u is its own farthest node.
C25_FirstChildWinsTies ==
    Ready
        => \A u \in Nodes :
             IF DeepestChildren(u) = {}
             THEN farthest_node[u] = u
             ELSE LET first == CHOOSE i \in DeepestChildren(u) :
                                 \A j \in DeepestChildren(u) : i <= j
                  IN farthest_node[u] = farthest_node[edges[u][first]]

\* C25 witness: the root has two children of equal depth, the one added
\* first having the larger id, and the first was chosen.
C25_Witness ==
    /\ Ready /\ Returned("preprocess")
    /\ edges[1] = <<3, 2>> /\ Cardinality(DeepestChildren(1)) = 2
    /\ farthest_node[1] = 3

\* the node reached from v by following parent[] k times
RECURSIVE ParentWalk(_, _)
ParentWalk(v, k) == IF k = 0 THEN v ELSE ParentWalk(parent[v], k - 1)

\* the scan of get_farthest_distance with the ancestor of each used
\* obtained from the ancestor of the previous used by one parent step
RECURSIVE WalkScan(_, _, _, _, _)
WalkScan(v, stamina, used, below, max_dist) ==
    IF used > stamina THEN max_dist
    ELSE IF parent[below] = 0 THEN max_dist
    ELSE LET dist == max_depth_in_subtree[parent[below]] - depth[v] + used IN
         WalkScan(v, stamina, used + 1, parent[below],
                  IF dist > max_dist THEN dist ELSE max_dist)

\* C26: on a valid preprocessed tree get_kth_ancestor(v, k) with k up to
\* depth[v] is the node reached by k parent steps from v, and
\* get_farthest_distance(v, s) returns what the scan by single parent steps
\* returns, for every stamina.
C26_LiftingEqualsParentWalk ==
    /\ (Ready /\ Returned("get_kth_ancestor") /\ last.y <= depth[last.x])
          => last.val = ParentWalk(last.x, last.y)
    /\ (Ready /\ Returned("get_farthest_distance"))
          => last.val = WalkScan(last.x, last.y, 1, last.x,
                                 max_depth_in_subtree[last.x] - depth[last.x])

\* C26 witness: the second ancestor of a node, found by lifting, is the root.
C26_Witness ==
    /\ Ready /\ Returned("get_kth_ancestor")
    /\ last.y = 2 /\ depth[last.x] = 2 /\ last.val = 1

\* C27: _preprocessed is false after construction; it turns true only in a
\* call of preprocess() that returns, with the results of all three phases
\* in place; a preprocess() that aborts leaves it as it was, so on a tree
\* where it was false get_farthest_distance keeps raising; once true it is
\* never false again.
C27_FlagLifecycle ==
    /\ [](calls = 0 => ~_preprocessed)
    /\ [][/\ _preprocessed => _preprocessed'
          /\ (~_preprocessed /\ _preprocessed')
                => /\ last'.op = "preprocess" /\ last'.status = "return"
                   /\ \A v \in Nodes : up'[v][0] = parent'[v]
                   /\ depth'[farthest_node'[1]] = max_depth_in_subtree'[1]
          /\ (last'.op = "preprocess" /\ last'.status /= "return")
                => _preprocessed' = _preprocessed
          /\ (~_preprocessed' /\ last'.op = "get_farthest_distance")
                => last'.status = "RuntimeError"]_vars

\* C27 witness: preprocess() has just aborted on a cycle, the flag is false.
C27_Witness ==
    /\ last.op = "preprocess" /\ last.status = "RecursionError"
    /\ calls > 0 /\ ~_preprocessed /\ EdgeCount = 3

Elems(sq) == {sq[i] : i \in 1..Len(sq)}

XValidTree ==
    /\ xor_tree.n > 0
    /\ XWithin({1}, xor_tree.n) = XNodes

XDist(u, w) ==
    CHOOSE d \in 0..xor_tree.n :
        w \in XWithin({u}, d) /\ \A e \in 0..(d - 1) : w \notin XWithin({u}, e)

XOnRootPath(a, v) == XDist(1, a) + XDist(a, v) = XDist(1, v)

XReady == XValidTree /\ xor_tree.made /\ xor_tree._preprocessed

\* the deepest node that lies on the root paths of both u and v
DeepestCommonAncestor(u, v) ==
    CHOOSE a \in XNodes :
        /\ XOnRootPath(a, u) /\ XOnRootPath(a, v)
        /\ \A b \in XNodes :
             (XOnRootPath(b, u) /\ XOnRootPath(b, v)) => XDist(1, b) <= XDist(1, a)

\* C30: in tree_path_xor_sum, lca (and get_path, which calls it) raises
\* RuntimeError before preprocess(); after preprocess on a valid tree
\* lca(u, v) is the deepest common ancestor of u and v and equals
\* lca(v, u), and get_path(u, v) goes from u to v through lca(u, v) along
\* edges and has depth[u] + depth[v] - 2 * depth[lca(u, v)] + 1 nodes.
C30_LcaAndPath ==
    /\ (xor_last.op \in {"lca", "get_path"} /\ ~xor_tree._preprocessed)
          => xor_last.status = "RuntimeError"
    /\ (XReady /\ xor_last.op = "lca")
          => /\ xor_last.status = "return"
             /\ xor_last.val = DeepestCommonAncestor(xor_last.u, xor_last.v)
             /\ xor_last.val = lca(xor_last.v, xor_last.u).val
    /\ (XReady /\ xor_last.op = "get_path")
          => LET path == xor_last.path
                 l == DeepestCommonAncestor(xor_last.u, xor_last.v)
             IN /\ xor_last.status = "return"
                /\ Len(path) = xor_tree.depth[xor_last.u] + xor_tree.depth[xor_last.v]
                                  - 2 * xor_tree.depth[l] + 1
                /\ path[1] = xor_last.u /\ path[Len(path)] = xor_last.v
                /\ \E i \in 1..Len(path) : path[i] = l
                /\ \A i \in 1..(Len(path) - 1) : path[i + 1] \in XAdj(path[i])

\* C30 witness: a path between two nodes on different branches, through
\* their common ancestor, which is neither of them.
C30_Witness ==
    /\ XReady /\ xor_last.op = "get_path" /\ xor_last.status = "return"
    /\ Len(xor_last.path) = 3
    /\ xor_last.path[2] = lca(xor_last.u, xor_last.v).val
====
